---- MODULE Spec2Model ----
(***************************************************************************)
(* Model of smart-backend (src/main.py): a FastAPI application with an     *)
(* API-key / monthly-quota middleware in front of every route, and a       *)
(* Stripe webhook that pops an unused key of the purchased plan and mails  *)
(* it to the customer.                                                     *)
(*                                                                         *)
(* The application runs on one asyncio event loop: the code between two    *)
(* awaits executes without interleaving, so every action below is one      *)
(* await-free stretch of a coroutine.  Requests are the processes; each    *)
(* request slot is used once, so a finished slot keeps its response.       *)
(***************************************************************************)
EXTENDS Integers, Sequences, FiniteSets, Bags

\* ---------------------------------------------------------------- bounds
\* Number of requests in one run.
MaxReqs == 2
\* Monthly quotas of the finite plans, scaled down from 10000 and 100000
\* (src/main.py:43-44) so that a run can reach them.
StarterLimit == 1
ProLimit == 2

Reqs == 1..MaxReqs

\* ------------------------------------------------------- module constants
\* src/main.py:26-37
STARTER_KEYS == <<"battlekey001", "battlekey002", "battlekey003">>
PRO_KEYS == <<"battlekey101", "battlekey102", "battlekey103">>
ENTERPRISE_KEYS == <<"battlekey201", "battlekey202", "battlekey203">>

Plans == {"starter", "pro", "enterprise"}

\* The key list of each plan, as UNUSED_KEYS copies them (src/main.py:126-130).
PlanKeys(p) ==
  CASE p = "starter" -> STARTER_KEYS
    [] p = "pro" -> PRO_KEYS
    [] p = "enterprise" -> ENTERPRISE_KEYS

\* A limit is a number or float('inf').
Finite(n) == [inf |-> FALSE, n |-> n]
Infinite == [inf |-> TRUE, n |-> 0]

\* src/main.py:42-46
PLAN_LIMITS ==
  [p \in Plans |-> CASE p = "starter" -> Finite(StarterLimit)
                     [] p = "pro" -> Finite(ProLimit)
                     [] p = "enterprise" -> Infinite]

\* `count > PLAN_LIMITS[plan]` (src/main.py:69); nothing exceeds float('inf').
ExceedsOffByOne(count, limit) == ~limit.inf /\ count > limit.n + 1
Exceeds(count, limit) == ~limit.inf /\ count > limit.n

Range(s) == {s[i] : i \in 1..Len(s)}

\* get_plan returns None for a key of no plan (src/main.py:48-55).
None == "<None>"

get_planOrStarter(key) ==
  IF key \in Range(PRO_KEYS) THEN "pro"
  ELSE IF key \in Range(ENTERPRISE_KEYS) THEN "enterprise"
  ELSE "starter"

get_plan(key) ==
  IF key \in Range(STARTER_KEYS) THEN "starter"
  ELSE IF key \in Range(PRO_KEYS) THEN "pro"
  ELSE IF key \in Range(ENTERPRISE_KEYS) THEN "enterprise"
  ELSE None

\* Python truthiness of a header value or of a plan: None and "" are falsy.
Falsy(v) == v = None \/ v = ""

\* The static price -> plan table of stripe_webhook (src/main.py:161-165).
PricePlanOrStarter(price_id) ==
  CASE price_id = "price_PRO_ID_HERE" -> "pro"
    [] price_id = "price_ENTERPRISE_ID_HERE" -> "enterprise"
    [] OTHER -> "starter"

PricePlan(price_id) ==
  CASE price_id = "price_1RJ5sJIIj61Y9MIRxvV1cMG6" -> "starter"
    [] price_id = "price_PRO_ID_HERE" -> "pro"
    [] price_id = "price_ENTERPRISE_ID_HERE" -> "enterprise"
    [] OTHER -> None

\* ------------------------------------------------------------- the inputs
\* X-API-KEY header values a request may carry: absent, blank, a key of a
\* finite plan, a key of the unlimited plan, and a key of no plan.
HeaderKeys == {None, "", "battlekey001", "battlekey201", "otherkey"}

\* Values of the VALID_API_KEYS environment variable, after split(","): unset
\* (the default "" splits to [""]), and two deployments.
ValidKeyConfigs ==
  { {""},
    {"battlekey201", "otherkey"},
    {"battlekey001", "battlekey201", "otherkey"} }

Paths == {"/", "/generate", "/reset", "/usage", "/webhook"}

\* What stripe.Webhook.construct_event does with the delivery.
Verifications == {"ok", "ValueError", "SignatureVerificationError"}
EventTypes == {"checkout.session.completed", "invoice.paid"}
PriceIds == {"price_1RJ5sJIIj61Y9MIRxvV1cMG6", "price_PRO_ID_HERE",
             "price_ENTERPRISE_ID_HERE", "price_unknown"}
EventIds == {"evt_1", "evt_2"}

\* ---------------------------------------------------------------- state
VARIABLES
  VALID_API_KEYS,   \* src/main.py:24
  request_counts,   \* src/main.py:40, a dict: key -> count
  UNUSED_KEYS,      \* src/main.py:126-130, plan -> list of keys
  req,              \* the requests: position, inputs, locals and response
  outbox            \* the messages aiosmtplib.send has delivered, a bag

vars == <<VALID_API_KEYS, request_counts, UNUSED_KEYS, req, outbox>>

\* request_counts.get(key, 0)
Count(counts, key) == IF key \in DOMAIN counts THEN counts[key] ELSE 0

\* request_counts.get(api_key, 0) + 1 (src/main.py:68)
NextCountByTwo(counts, key) == Count(counts, key) + 2
NextCount(counts, key) == Count(counts, key) + 1

\* request_counts[key] = count
SetCount(counts, key, count) ==
  [k \in DOMAIN counts \cup {key} |-> IF k = key THEN count ELSE counts[k]]

\* A request: its position (pc), its inputs (path, key; for a webhook call
\* sig, what construct_event made of payload and signature, and price, the
\* price_id stripe_webhook read), the locals of stripe_webhook (evt, plan,
\* api_key) and its response (status, the detail of the HTTPException, and
\* used, the "used" field of the /usage body).
IdleReq ==
  [pc |-> "idle", path |-> None, key |-> None, status |-> 0, detail |-> None,
   sig |-> None, price |-> None,
   evt |-> None, plan |-> None, api_key |-> None, used |-> 0]

\* The module state after import, with room for the requests of `slots`.
InitWith(configs, slots) ==
  /\ VALID_API_KEYS \in configs
  /\ request_counts = <<>>
  /\ UNUSED_KEYS = [p \in Plans |-> PlanKeys(p)]
  /\ req = [r \in slots |-> IdleReq]
  /\ outbox = EmptyBag

Init == InitWith(ValidKeyConfigs, Reqs)

\* A request arrives: a route and an X-API-KEY header (or none).
\* Slots are taken in order.
ArriveWith(r, paths, keys) ==
  /\ req[r].pc = "idle"
  /\ \A q \in DOMAIN req : q < r => req[q].pc # "idle"
  /\ \E path \in paths, key \in keys :
       req' = [req EXCEPT ![r] = [@ EXCEPT !.pc = "gate", !.path = path, !.key = key]]
  /\ UNCHANGED <<VALID_API_KEYS, request_counts, UNUSED_KEYS, outbox>>

Arrive(r) == ArriveWith(r, Paths, HeaderKeys)

\* A finished handler: the response status, nothing else changes.
Respond(r, status) ==
  req' = [req EXCEPT ![r] = [@ EXCEPT !.pc = "done", !.status = status]]

\* raise HTTPException(status_code=status, detail=detail)
Raise(r, status, detail) ==
  req' = [req EXCEPT ![r] = [@ EXCEPT !.pc = "done", !.status = status,
                                      !.detail = detail]]

\* The http middleware, up to `await call_next(request)` (src/main.py:57-73).
\* It is registered for every route.
check_api_key_and_limit(r) ==
  /\ req[r].pc = "gate"
  /\ LET api_key == req[r].key
         plan == get_plan(api_key)
         count == NextCount(request_counts, api_key)
     IN IF Falsy(api_key) \/ api_key \notin VALID_API_KEYS
        THEN /\ Raise(r, 401, "Invalid or missing API key.")
             /\ UNCHANGED request_counts
        ELSE IF Falsy(plan)
        THEN /\ Raise(r, 403, "Unauthorized API key.")
             /\ UNCHANGED request_counts
        ELSE IF Exceeds(count, PLAN_LIMITS[plan])
        THEN /\ Raise(r, 429, "Monthly usage limit exceeded. Upgrade your plan.")
             /\ UNCHANGED request_counts
        ELSE /\ request_counts' = SetCount(request_counts, api_key, count)
             /\ req' = [req EXCEPT ![r] = [@ EXCEPT !.pc = "handler"]]
  /\ UNCHANGED <<VALID_API_KEYS, UNUSED_KEYS, outbox>>

\* GET / (src/main.py:76-78)
read_root(r) ==
  /\ req[r].pc = "handler" /\ req[r].path = "/"
  /\ Respond(r, 200)
  /\ UNCHANGED <<VALID_API_KEYS, request_counts, UNUSED_KEYS, outbox>>

\* POST /generate (src/main.py:80-94): 400 without a prompt, else the
\* completion of the external service.
generate_code(r) ==
  /\ req[r].pc = "handler" /\ req[r].path = "/generate"
  /\ \E prompt \in {"", "write a sort"} :
       IF Falsy(prompt) THEN Raise(r, 400, "Prompt is required.") ELSE Respond(r, 200)
  /\ UNCHANGED <<VALID_API_KEYS, request_counts, UNUSED_KEYS, outbox>>

\* The loop of reset_counters over request_counts.keys().
ZeroNone(counts) == counts
ZeroAll(counts) == [k \in DOMAIN counts |-> 0]

\* POST /reset (src/main.py:96-100)
reset_counters(r) ==
  /\ req[r].pc = "handler" /\ req[r].path = "/reset"
  /\ request_counts' = ZeroAll(request_counts)
  /\ Respond(r, 200)
  /\ UNCHANGED <<VALID_API_KEYS, UNUSED_KEYS, outbox>>

\* GET /usage (src/main.py:102-116)
get_usage(r) ==
  /\ req[r].pc = "handler" /\ req[r].path = "/usage"
  /\ LET api_key == req[r].key
         count == Count(request_counts, api_key)
         plan == get_plan(api_key)
     IN IF Falsy(api_key) \/ api_key \notin VALID_API_KEYS
        THEN Raise(r, 401, "Invalid or missing API key.")
        ELSE IF Falsy(plan)
        THEN Raise(r, 403, "Unauthorized API key.")
        ELSE req' = [req EXCEPT ![r] =
                       [@ EXCEPT !.pc = "done", !.status = 200, !.used = count]]
  /\ UNCHANGED <<VALID_API_KEYS, request_counts, UNUSED_KEYS, outbox>>

\* get_key_for_plan (src/main.py:132-135): the key it returns, None when the
\* list is empty, and the list it leaves.
KeptInPool(pool) == pool
RestOfPool(pool) == IF pool # <<>> THEN Tail(pool) ELSE pool

get_key_for_planFallback(pool) == IF pool # <<>> THEN Head(pool) ELSE "battlekey001"
get_key_for_plan(pool) == IF pool # <<>> THEN Head(pool) ELSE None

\* POST /webhook (src/main.py:146-176) up to `await send_key_email(...)`.
stripe_webhook(r) ==
  /\ req[r].pc = "handler" /\ req[r].path = "/webhook"
  /\ \E v \in Verifications, type \in EventTypes, price_id \in PriceIds, id \in EventIds :
       LET plan == PricePlan(price_id)
           api_key == get_key_for_plan(UNUSED_KEYS[plan])
       IN IF v = "ValueError"
          THEN /\ req' = [req EXCEPT ![r] =
                            [@ EXCEPT !.pc = "done", !.status = 400, !.sig = v,
                                      !.detail = "Invalid payload"]]
               /\ UNCHANGED UNUSED_KEYS
          ELSE IF v = "SignatureVerificationError"
          THEN /\ req' = [req EXCEPT ![r] =
                            [@ EXCEPT !.pc = "done", !.status = 400, !.sig = v,
                                      !.detail = "Invalid signature"]]
               /\ UNCHANGED UNUSED_KEYS
          ELSE IF type # "checkout.session.completed"
          THEN /\ req' = [req EXCEPT ![r] =
                            [@ EXCEPT !.pc = "done", !.status = 200, !.sig = v,
                                      !.evt = id]]
               /\ UNCHANGED UNUSED_KEYS
          ELSE IF Falsy(plan)
          THEN /\ req' = [req EXCEPT ![r] =
                            [@ EXCEPT !.pc = "done", !.status = 400, !.sig = v,
                                      !.evt = id, !.price = price_id,
                                      !.detail = "Unknown plan"]]
               /\ UNCHANGED UNUSED_KEYS
          ELSE /\ UNUSED_KEYS' = [UNUSED_KEYS EXCEPT ![plan] = RestOfPool(@)]
               /\ IF ~Falsy(api_key)
                  THEN req' = [req EXCEPT ![r] =
                                 [@ EXCEPT !.pc = "email", !.sig = v, !.evt = id,
                                           !.price = price_id, !.plan = plan,
                                           !.api_key = api_key]]
                  ELSE req' = [req EXCEPT ![r] =
                                 [@ EXCEPT !.pc = "done", !.status = 200, !.sig = v,
                                           !.evt = id, !.price = price_id,
                                           !.plan = plan]]
  /\ UNCHANGED <<VALID_API_KEYS, request_counts, outbox>>

\* The message send_key_email builds (src/main.py:137-142); the recipient is
\* the customer of the event.
MessageWithRequestKey(r) == [to |-> req[r].evt, key |-> req[r].key, plan |-> req[r].plan]
Message(r) == [to |-> req[r].evt, key |-> req[r].api_key, plan |-> req[r].plan]

\* aiosmtplib.send delivers the message and stripe_webhook returns success
\* (src/main.py:143-144, 172, 176).
send_key_email(r) ==
  /\ req[r].pc = "email"
  /\ outbox' = outbox (+) SetToBag({Message(r)})
  /\ Respond(r, 200)
  /\ UNCHANGED <<VALID_API_KEYS, request_counts, UNUSED_KEYS>>

\* aiosmtplib.send raises: the exception leaves stripe_webhook, the request
\* ends as a server error.
send_key_email_raises(r) ==
  /\ req[r].pc = "email"
  /\ Respond(r, 500)
  /\ UNCHANGED <<VALID_API_KEYS, request_counts, UNUSED_KEYS, outbox>>

Next ==
  \E r \in Reqs :
    \/ Arrive(r)
    \/ check_api_key_and_limit(r)
    \/ read_root(r)
    \/ generate_code(r)
    \/ reset_counters(r)
    \/ get_usage(r)
    \/ stripe_webhook(r)
    \/ send_key_email(r)
    \/ send_key_email_raises(r)

Spec == Init /\ [][Next]_vars

\* ------------------------------------------------ a burst of webhook calls
\* One more delivery than a plan has unused keys, all carrying a key of the
\* unlimited plan so that the middleware lets every one through.
PoolReqs == 1..(Len(STARTER_KEYS) + 1)

InitPool == InitWith({{"battlekey201"}}, PoolReqs)

Deliver(r) == ArriveWith(r, {"/webhook"}, {"battlekey201"})

NextPool ==
  \E r \in PoolReqs :
    \/ Deliver(r)
    \/ check_api_key_and_limit(r)
    \/ stripe_webhook(r)
    \/ send_key_email(r)
    \/ send_key_email_raises(r)

SpecPool == InitPool /\ [][NextPool]_vars

\* ------------------------------------------- calls around a counter reset
\* Enough calls to bring a starter key to its limit, reset, and call once
\* more; the reset is sent with a key of the unlimited plan.
ResetReqs == 1..(StarterLimit + 2)

InitReset == InitWith({{"battlekey001", "battlekey201", "otherkey"}}, ResetReqs)

Call(r) == ArriveWith(r, {"/generate", "/reset"}, {"battlekey001", "battlekey201"})

NextReset ==
  \E r \in ResetReqs :
    \/ Call(r)
    \/ check_api_key_and_limit(r)
    \/ generate_code(r)
    \/ reset_counters(r)

SpecReset == InitReset /\ [][NextReset]_vars

\* ------------------------------------------------------------ vocabulary
\* The middleware has run for request r.
Gated(r) == req[r].pc \notin {"idle", "gate"}

\* Its three rejections, by the status of the HTTPException it raises.
Unauthenticated(r) == req[r].status = 401
Unauthorized(r) == req[r].status = 403
QuotaExceeded(r) == req[r].status = 429

\* The middleware let r through to its route.
Allowed(r) == Gated(r) /\ req[r].status \notin {401, 403, 429}

\* Keys of a plan with a finite limit, and that limit.
FiniteKey(k) == ~Falsy(get_plan(k)) /\ ~PLAN_LIMITS[get_plan(k)].inf
Limit(k) == PLAN_LIMITS[get_plan(k)].n

\* The keys some request carries or some counter tracks.
SeenKeys == {req[r].key : r \in DOMAIN req} \cup DOMAIN request_counts

\* Requests waiting at the middleware with key k.
PendingOn(k) == {r \in DOMAIN req : req[r].pc = "gate" /\ req[r].key = k}

\* The /reset handler has run.
ResetRun == \E r \in DOMAIN req : req[r].path = "/reset" /\ req[r].pc = "done"

Min(a, b) == IF a <= b THEN a ELSE b

\* The keys still in some list of UNUSED_KEYS.
PoolKeys == UNION {Range(UNUSED_KEYS[p]) : p \in Plans}

\* The module state other than the requests themselves.
shared == <<VALID_API_KEYS, request_counts, UNUSED_KEYS, outbox>>

\* Request r runs its route handler in this step.
Handles(r) == req[r].pc = "handler" /\ req'[r] # req[r]

\* ---------------------------------------------------------------- claims

\* C1: in every reachable state the counter of a key whose plan has a finite
\* limit L is at most L.
C1_CountWithinLimit ==
  \A k \in DOMAIN request_counts : FiniteKey(k) => request_counts[k] <= Limit(k)

\* C1 witness: a finite-plan key stands at its limit and a request with it has
\* been turned away.
C1_Witness ==
  \E r \in DOMAIN req :
    /\ QuotaExceeded(r) /\ FiniteKey(req[r].key)
    /\ Count(request_counts, req[r].key) = Limit(req[r].key)

\* C2: of the requests that wait at the quota check with the same finite-plan
\* key while its counter is L-1, the one that runs first is let through and
\* brings the counter to L, the others stay outside; and at counter L every
\* request with that key gets QuotaExceeded and leaves the counter alone.
C2_OneAllowedAtLastUnit ==
  [][\A k \in SeenKeys :
       (FiniteKey(k) /\ k \in VALID_API_KEYS) =>
         /\ (Count(request_counts, k) = Limit(k) - 1 /\ Cardinality(PendingOn(k)) >= 2) =>
              /\ Cardinality({r \in PendingOn(k) : req'[r].pc # "gate"}) <= 1
              /\ \A r \in PendingOn(k) :
                   req'[r].pc # "gate" =>
                     /\ req'[r].pc = "handler"
                     /\ Count(request_counts', k) = Limit(k)
         /\ Count(request_counts, k) >= Limit(k) =>
              \A r \in PendingOn(k) :
                req'[r].pc # "gate" =>
                  /\ req'[r].status = 429
                  /\ request_counts' = request_counts]_vars

\* C2 witness: two requests with the same finite-plan key were waiting
\* together; the later one has been let through, the counter is at the limit
\* and the earlier one is still at the check.
C2_Witness ==
  \E q, r \in DOMAIN req :
    /\ q < r /\ req[q].key = req[r].key /\ FiniteKey(req[r].key)
    /\ req[q].pc = "gate" /\ Allowed(r)
    /\ Count(request_counts, req[r].key) = Limit(req[r].key)

\* Deliveries that got a key of plan p, and deliveries that found its list
\* empty.
Got(p) == {r \in DOMAIN req : req[r].plan = p /\ req[r].api_key # None}
Exhausted(p) == {r \in DOMAIN req : req[r].plan = p /\ req[r].api_key = None}

\* C3: when more deliveries ask for a plan than its list holds keys (K), the
\* keys handed out are pairwise distinct, exactly as many deliveries got a key
\* as keys left the list (at most K), and a delivery is told the list is empty
\* only once K deliveries hold a key.
C3_DistinctKeys ==
  /\ \A q, r \in DOMAIN req :
       (q # r /\ req[q].api_key # None) => req[q].api_key # req[r].api_key
  /\ \A p \in Plans :
       /\ Cardinality(Got(p)) + Len(UNUSED_KEYS[p]) = Len(PlanKeys(p))
       /\ Exhausted(p) # {} => Cardinality(Got(p)) = Len(PlanKeys(p))

\* C3 witness: four deliveries for the starter plan; three hold keys, the
\* fourth found the list empty.
C3_Witness ==
  /\ Cardinality(Got("starter")) = Len(STARTER_KEYS)
  /\ Cardinality(Exhausted("starter")) = 1

\* C4: two verified checkout-completed deliveries with the same EventId lead
\* to one key allocation and one notification.
C4_OneAllocationPerEvent ==
  /\ \A q, r \in DOMAIN req :
       (q # r /\ req[q].evt # None /\ req[q].evt = req[r].evt) =>
         ~(req[q].api_key # None /\ req[r].api_key # None)
  /\ \A e \in EventIds : Cardinality({m \in BagToSet(outbox) : m.to = e}) <= 1

\* C5: as soon as an allocation returns a key, the middleware accepts that key
\* (it is in VALID_API_KEYS), resolves it to the purchased plan, and its
\* counter stands at 0.
C5_AllocatedKeyUsable ==
  [][\A r \in DOMAIN req :
       (req[r].pc = "handler" /\ req'[r].pc = "email") =>
         /\ req'[r].api_key \in VALID_API_KEYS
         /\ get_plan(req'[r].api_key) = req'[r].plan
         /\ Count(request_counts', req'[r].api_key) = 0]_vars

\* C6: a key that is still in a list of unused keys has not been let through
\* by the middleware and has no usage counted.
C6_PoolKeysInactive ==
  \A k \in PoolKeys :
    /\ Count(request_counts, k) = 0
    /\ ~\E r \in DOMAIN req : req[r].key = k /\ Allowed(r)

\* Requests with key k the middleware has run for, let through, turned away
\* for quota.
GatedWith(k) == {r \in DOMAIN req : req[r].key = k /\ Gated(r)}
AllowedWith(k) == {r \in DOMAIN req : req[r].key = k /\ Allowed(r)}
ExceededWith(k) == {r \in DOMAIN req : req[r].key = k /\ QuotaExceeded(r)}

\* C7: without a reset, of the G quota checks made so far with a fresh key of
\* a plan with finite limit L, the first L were allowed and all later ones got
\* QuotaExceeded: min(L, G) are allowed, the rest exceeded, and a check is
\* turned away only once L were allowed.
C7_ExactlyLimitAllowed ==
  ~ResetRun =>
    \A k \in VALID_API_KEYS :
      FiniteKey(k) =>
        /\ Cardinality(AllowedWith(k)) = Min(Limit(k), Cardinality(GatedWith(k)))
        /\ Cardinality(ExceededWith(k)) =
             Cardinality(GatedWith(k)) - Cardinality(AllowedWith(k))
        /\ Count(request_counts, k) = Cardinality(AllowedWith(k))

\* C7 witness: L+1 checks with one finite-plan key and no reset: L allowed,
\* one exceeded.
C7_Witness ==
  \E k \in VALID_API_KEYS :
    /\ FiniteKey(k) /\ ~ResetRun
    /\ Cardinality(GatedWith(k)) = Limit(k) + 1
    /\ Cardinality(AllowedWith(k)) = Limit(k)
    /\ Cardinality(ExceededWith(k)) = 1

\* C8: a counter goes up only when the middleware lets a request with that key
\* through, and then by exactly one, with every other counter unchanged; a
\* request it rejects (401, 403, 429) leaves every counter unchanged.  (The
\* one other change of a counter is the zeroing by /reset.)
C8_CountOnlyOnAdmission ==
  [][/\ \A k \in SeenKeys \cup DOMAIN request_counts' :
          /\ Count(request_counts', k) > Count(request_counts, k) =>
               /\ Count(request_counts', k) = Count(request_counts, k) + 1
               /\ \E r \in PendingOn(k) : req'[r].pc = "handler"
          /\ Count(request_counts', k) < Count(request_counts, k) =>
               \E r \in DOMAIN req :
                 /\ req[r].path = "/reset" /\ req[r].pc = "handler"
                 /\ req'[r].pc = "done"
     /\ \A r \in DOMAIN req :
          (req[r].pc = "gate" /\ req'[r].pc = "handler") =>
            /\ Count(request_counts', req[r].key) = Count(request_counts, req[r].key) + 1
            /\ \A k \in SeenKeys : k # req[r].key =>
                 Count(request_counts', k) = Count(request_counts, k)
     /\ \A r \in DOMAIN req :
          (req[r].pc = "gate" /\ req'[r].status \in {401, 403, 429}) =>
            request_counts' = request_counts]_vars

\* C8 witness: one request was rejected and one was let through, whose key
\* counts one call.
C8_Witness ==
  \E q, r \in DOMAIN req :
    /\ Gated(q) /\ ~Allowed(q)
    /\ Allowed(r) /\ Count(request_counts, req[r].key) = 1

\* The key has a tier the service recognises: it is accepted as existing and
\* belongs to a plan.
HasPlan(k) == \E p \in Plans : k \in Range(PlanKeys(p))
Registered(k) == k \in VALID_API_KEYS /\ HasPlan(k)

NotifyFailed(r) == req[r].path = "/webhook" /\ req[r].pc = "done" /\ req[r].status = 500

\* C10: when the notification fails the key stays allocated: the failing step
\* leaves every list of unused keys and the delivery's key as they are, the
\* key of a failed delivery is in no list, and no list ever gets a key back.
C10_FailedNotifyKeepsKey ==
  /\ [](\A r \in DOMAIN req :
          NotifyFailed(r) => (req[r].api_key # None /\ req[r].api_key \notin PoolKeys))
  /\ [][/\ \A r \in DOMAIN req :
             (req[r].pc = "email" /\ req'[r].status = 500) =>
               /\ UNUSED_KEYS' = UNUSED_KEYS
               /\ req'[r].api_key = req[r].api_key
        /\ \A r \in DOMAIN req :
             NotifyFailed(r) => req'[r] = req[r]
        /\ \A p \in Plans : Range(UNUSED_KEYS'[p]) \subseteq Range(UNUSED_KEYS[p])]_vars

\* C10 witness: a delivery whose notification raised, and a later delivery
\* for the same plan that got another key.
C10_Witness ==
  \E q, r \in DOMAIN req :
    /\ NotifyFailed(q) /\ req[r].plan = req[q].plan
    /\ req[r].api_key # None /\ req[r].api_key # req[q].api_key

\* C11: a verified checkout-completed delivery whose plan has no unused key
\* left is answered success (200), gets no key and never reaches the
\* notification, and its step leaves the whole module state as it was, so
\* nothing marks the event as processed.
C11_ExhaustedIsAccepted ==
  /\ [](\A r \in DOMAIN req :
          (req[r].plan # None /\ req[r].api_key = None) =>
            /\ req[r].pc = "done" /\ req[r].status = 200
            /\ \A m \in BagToSet(outbox) : m.key # None)
  /\ [][\A r \in DOMAIN req :
          (/\ Handles(r) /\ req[r].path = "/webhook"
           /\ PricePlan(req'[r].price) # None
           /\ UNUSED_KEYS[PricePlan(req'[r].price)] = <<>>) =>
            /\ req'[r].pc = "done" /\ req'[r].status = 200
            /\ req'[r].api_key = None
            /\ shared' = shared]_vars

\* C11 witness: a delivery for the starter plan was answered success without a
\* key, the starter list being empty.
C11_Witness ==
  \E r \in DOMAIN req :
    /\ req[r].price = "price_1RJ5sJIIj61Y9MIRxvV1cMG6" /\ req[r].api_key = None
    /\ req[r].status = 200 /\ UNUSED_KEYS["starter"] = <<>>

\* C12: a verified checkout-completed delivery whose price_id is in no entry
\* of the price table is rejected with 400 "Unknown plan"; it holds no key and
\* no plan, and its step leaves every list of unused keys, the outbox and the
\* rest of the module state as they were.
C12_UnknownPlanRejected ==
  /\ [](\A r \in DOMAIN req :
          req[r].price = "price_unknown" =>
            /\ req[r].pc = "done" /\ req[r].status = 400
            /\ req[r].detail = "Unknown plan"
            /\ req[r].plan = None /\ req[r].api_key = None)
  /\ [][\A r \in DOMAIN req :
          (Handles(r) /\ req'[r].price = "price_unknown") => shared' = shared]_vars

\* C12 witness: a delivery with price_unknown has been rejected.
C12_Witness ==
  \E r \in DOMAIN req :
    req[r].price = "price_unknown" /\ req[r].sig = "ok" /\ req[r].status = 400

\* Webhook calls whose construct_event raised.
VerificationFailed(r) == req[r].sig \in {"ValueError", "SignatureVerificationError"}

\* C13: a webhook delivery that fails verification is rejected (400) and has
\* no further effect: it holds no key, every list of unused keys and the
\* outbox are as its handler found them, and it has added nothing to a usage
\* counter (without a reset, the counter of the key it carried counts only
\* the other requests let through with that key).
C13_FailedVerificationNoEffect ==
  /\ [](\A r \in DOMAIN req :
          VerificationFailed(r) =>
            /\ req[r].pc = "done" /\ req[r].status = 400
            /\ req[r].api_key = None
            /\ ~ResetRun =>
                 Count(request_counts, req[r].key) =
                   Cardinality({q \in DOMAIN req :
                                  /\ req[q].key = req[r].key /\ Allowed(q)
                                  /\ ~VerificationFailed(q)}))
  /\ [][\A r \in DOMAIN req :
          (Handles(r) /\ VerificationFailed(r)') =>
            UNUSED_KEYS' = UNUSED_KEYS /\ outbox' = outbox]_vars

\* C14: the webhook route is exempt from the key and quota checks: no webhook
\* call is rejected by the middleware, and no step of serving a webhook call
\* changes a usage counter.
C14_WebhookExempt ==
  /\ [](\A r \in DOMAIN req :
          (req[r].path = "/webhook" /\ Gated(r)) => Allowed(r))
  /\ [][\A r \in DOMAIN req :
          (req[r].path = "/webhook" /\ req'[r] # req[r]) =>
            request_counts' = request_counts]_vars

\* Request r runs the /reset handler in this step.
Resets(r) == Handles(r) /\ req[r].path = "/reset"

\* C15: the reset leaves every tracked counter at zero (and tracks the same
\* keys), and a quota check for a listed key of a plan whose counter is zero
\* is allowed and counts one: so the first check after a reset is allowed,
\* whatever the counter was before.
C15_ResetThenAllowed ==
  [][/\ \A r \in DOMAIN req :
          Resets(r) =>
            /\ DOMAIN request_counts' = DOMAIN request_counts
            /\ \A k \in DOMAIN request_counts' : request_counts'[k] = 0
     /\ \A r \in DOMAIN req :
          (/\ req[r].pc = "gate" /\ req'[r] # req[r]
           /\ req[r].key \in VALID_API_KEYS /\ HasPlan(req[r].key)
           /\ Count(request_counts, req[r].key) = 0) =>
            /\ req'[r].pc = "handler"
            /\ Count(request_counts', req[r].key) = 1]_vars

\* C15 witness: a finite-plan key was at its limit, a reset ran, and one more
\* call with the key was let through: more calls allowed than the limit.
C15_Witness ==
  \E k \in VALID_API_KEYS :
    /\ FiniteKey(k) /\ ResetRun
    /\ Cardinality(AllowedWith(k)) = Limit(k) + 1
    /\ Count(request_counts, k) = 1

\* C16: the reset needs no key: every /reset request, whatever key it carries
\* and whatever the counters are, gets past the middleware and runs the
\* handler.
C16_ResetNeedsNoKey ==
  \A r \in DOMAIN req :
    (req[r].path = "/reset" /\ Gated(r)) => Allowed(r)

\* C17: the usage query is read-only: no step of serving a /usage request
\* changes a usage counter, and the body reports the counter of the key.
C17_UsageReadOnly ==
  [][\A r \in DOMAIN req :
       (req[r].path = "/usage" /\ req'[r] # req[r]) =>
         /\ request_counts' = request_counts
         /\ req'[r].status = 200 =>
              req'[r].used = Count(request_counts, req[r].key)]_vars

\* C18: the notification comes after the pop and holds no lock: a key whose
\* notification is awaited or sent is in no list of unused keys, and while
\* one handler waits on its notification every other webhook handler is free
\* to run, would get a different key, and whatever key it gets in a step
\* differs from the waiting one's.
C18_NotifyOutsideAllocation ==
  /\ [](/\ \A m \in BagToSet(outbox) : m.key \notin PoolKeys
        /\ \A q \in DOMAIN req :
             req[q].pc = "email" =>
               /\ req[q].api_key \notin PoolKeys
               /\ \A r \in DOMAIN req :
                    (req[r].pc = "handler" /\ req[r].path = "/webhook") =>
                      /\ ENABLED stripe_webhook(r)
                      /\ get_key_for_plan(UNUSED_KEYS[req[q].plan]) # req[q].api_key)
  /\ [][\A q, r \in DOMAIN req :
          (/\ q # r /\ req[q].pc = "email" /\ req'[q].pc = "email"
           /\ Handles(r) /\ req'[r].api_key # None) =>
            req'[r].api_key # req[q].api_key]_vars

\* C18 witness: the delivery that popped the first starter key still waits on
\* its notification while the delivery that popped the second one has
\* finished.
C18_Witness ==
  \E q, r \in DOMAIN req :
    /\ req[q].pc = "email" /\ req[q].api_key = STARTER_KEYS[1]
    /\ req[r].pc = "done" /\ req[r].api_key = STARTER_KEYS[2]

\* The middleware lets request r through in this step.
Admits(r) == req[r].pc = "gate" /\ req'[r].pc = "handler"

\* C19: resets and gated requests interleave without corrupting a counter:
\* in every state each counter is a natural number no greater than the number
\* of calls let through with its key; a reset sets every counter to zero also
\* while let-through requests are still in flight; from then on a counter
\* moves only by one per call let through, and the rest of a request that is
\* already past the check adds nothing.
C19_ResetKeepsCountersSound ==
  /\ [](\A k \in DOMAIN request_counts :
          /\ request_counts[k] \in Nat
          /\ request_counts[k] <= Cardinality(AllowedWith(k)))
  /\ [][/\ \A r \in DOMAIN req :
             Resets(r) => \A k \in DOMAIN request_counts' : request_counts'[k] = 0
        /\ \A r \in DOMAIN req :
             Admits(r) =>
               request_counts' =
                 SetCount(request_counts, req[r].key, Count(request_counts, req[r].key) + 1)
        /\ (\A r \in DOMAIN req : ~Admits(r) /\ ~Resets(r)) =>
             request_counts' = request_counts]_vars

\* C19 witness: a reset has run while a request that had passed the quota
\* check was still in flight; the counter of that request's key is zero.
C19_Witness ==
  \E q, r \in DOMAIN req :
    /\ req[r].path = "/reset" /\ req[r].pc = "done" /\ req[r].status = 200
    /\ req[q].pc = "handler" /\ req[q].key \in DOMAIN request_counts
    /\ request_counts[req[q].key] = 0

\* C20: every notification sent carries the key, plan and customer of a
\* delivery that popped that key before; a popped key comes from the list of
\* the plan the event's price_id maps to, so get_plan of the key is the
\* purchased plan; a delivery pops one key at most and keeps it, and no key is
\* notified twice.
C20_NotifiedKeyIsThePoppedOne ==
  /\ [](/\ \A r \in DOMAIN req :
             req[r].api_key # None =>
               /\ req[r].plan = PricePlan(req[r].price)
               /\ get_plan(req[r].api_key) = req[r].plan
               /\ req[r].api_key \notin PoolKeys
        /\ \A m \in BagToSet(outbox) :
             /\ CopiesIn(m, outbox) = 1
             /\ \A n \in BagToSet(outbox) : n.key = m.key => n = m
             /\ \E r \in DOMAIN req :
                  /\ req[r].pc = "done" /\ req[r].status = 200
                  /\ req[r].api_key # None /\ m.key = req[r].api_key
                  /\ m.plan = req[r].plan /\ m.to = req[r].evt)
  /\ [][/\ \A r \in DOMAIN req :
             req[r].api_key # None => req'[r].api_key = req[r].api_key
        /\ \A p \in Plans :
             UNUSED_KEYS'[p] # UNUSED_KEYS[p] =>
               /\ UNUSED_KEYS'[p] = Tail(UNUSED_KEYS[p])
               /\ \E r \in DOMAIN req :
                    /\ Handles(r) /\ req[r].path = "/webhook" /\ req[r].api_key = None
                    /\ req'[r].plan = p /\ req'[r].api_key = Head(UNUSED_KEYS[p])
                    /\ req'[r].pc = "email"
        /\ outbox' # outbox =>
             \E r \in DOMAIN req : req[r].pc = "email" /\ req'[r].pc = "done"]_vars

\* C20 witness: the first pro key has been mailed for a pro purchase.
C20_Witness ==
  \E m \in BagToSet(outbox) : m.plan = "pro" /\ m.key = PRO_KEYS[1]
====
